---- MODULE Spec2Model ----
(***************************************************************************)
(* Form Studio backend (src/backend/server.py, database.py, models.py):    *)
(* templates, their versions, the publish pointer, payload validation and  *)
(* the submission ledger, as a state machine over the committed database   *)
(* and the requests in flight.                                             *)
(*                                                                         *)
(* Every handler runs in its own AsyncSession (database.py:57-62) on the   *)
(* default PostgreSQL engine (database.py:9-12): what it SELECTs is the    *)
(* committed state at that statement, what it writes becomes visible to    *)
(* the others at `await db.commit()` in one step, and the constraints of   *)
(* the tables (unique key, foreign keys without ON DELETE) are enforced at *)
(* the flush.  A handler is one action per database round that another     *)
(* request can interleave with: its reads, then its commit.                *)
(***************************************************************************)
EXTENDS Integers, Sequences, FiniteSets, TLC

\* Bounds of the model.
MaxTemplates == 2
MaxVersions == 2
MaxSubmissions == 1
MaxInflight == 2

(***************************************************************************)
(* JSON values of a payload.  Strings are tuples of characters so that     *)
(* split, len and re.match are computed, not assumed.  A dict is the       *)
(* ordered list of its <<key, value>> items (insertion order, unique keys).*)
(***************************************************************************)
VNull == [t |-> "null"]
VStr(s) == [t |-> "str", s |-> s]
VInt(n) == [t |-> "int", n |-> n]
VBool(b) == [t |-> "bool", b |-> b]
VDict(items) == [t |-> "dict", d |-> items]

\* dict.get(key): the value of the item with that key, None when there is none.
DictGet(items, k) ==
    IF \E i \in 1..Len(items) : items[i][1] = k
    THEN items[CHOOSE i \in 1..Len(items) : items[i][1] = k][2]
    ELSE VNull

\* path.split('.')
RECURSIVE SplitFrom(_, _, _)
SplitFrom(s, i, cur) ==
    IF i > Len(s) THEN <<cur>>
    ELSE IF s[i] = "." THEN <<cur>> \o SplitFrom(s, i + 1, <<>>)
    ELSE SplitFrom(s, i + 1, Append(cur, s[i]))

\* Faulty variant: the key is looked up whole.
splitWhole(path) == <<path>>

split(path) == SplitFrom(path, 1, <<>>)

\* The loop of get_nested_value over the segments keys[i..].
RECURSIVE Walk(_, _, _)
Walk(value, keys, i) ==
    IF i > Len(keys) THEN value
    ELSE IF value.t = "null" \/ value.t # "dict" THEN VNull
    ELSE Walk(DictGet(value.d, keys[i]), keys, i + 1)

get_nested_value(obj, path) == Walk(obj, split(path), 1)

\* Python truth value of a JSON value (`if value and ...`).
Truthy(v) ==
    CASE v.t = "null" -> FALSE
      [] v.t = "str" -> Len(v.s) > 0
      [] v.t = "int" -> v.n # 0
      [] v.t = "bool" -> v.b
      [] v.t = "dict" -> Len(v.d) > 0

Digit(n) == <<"0", "1", "2", "3", "4", "5", "6", "7", "8", "9">>[n + 1]

RECURSIVE IntStr(_)
IntStr(n) ==
    IF n < 0 THEN <<"-">> \o IntStr(0 - n)
    ELSE IF n < 10 THEN <<Digit(n)>>
    ELSE IntStr(n \div 10) \o <<Digit(n % 10)>>

\* repr(value) and str(value).
RECURSIVE Repr(_)
RECURSIVE ReprItems(_, _)
ReprItems(items, i) ==
    IF i > Len(items) THEN <<>>
    ELSE (IF i > 1 THEN <<",", " ">> ELSE <<>>)
         \o <<"'">> \o items[i][1] \o <<"'", ":", " ">> \o Repr(items[i][2])
         \o ReprItems(items, i + 1)

Repr(v) ==
    CASE v.t = "null" -> <<"N", "o", "n", "e">>
      [] v.t = "str" -> <<"'">> \o v.s \o <<"'">>
      [] v.t = "int" -> IntStr(v.n)
      [] v.t = "bool" -> IF v.b THEN <<"T", "r", "u", "e">>
                         ELSE <<"F", "a", "l", "s", "e">>
      [] v.t = "dict" -> <<"{">> \o ReprItems(v.d, 1) \o <<"}">>

Str(v) == IF v.t = "str" THEN v.s ELSE Repr(v)

(***************************************************************************)
(* Regular expressions: the fragment "one character class per position,    *)
(* optionally closed by $".  re.match anchors at position 0 only.          *)
(***************************************************************************)
Pattern(atoms, dollar) == [atoms |-> atoms, dollar |-> dollar]

\* The pattern string is non-empty (`... and field_obj.validation.regex`).
PatternTruthy(p) == Len(p.atoms) > 0 \/ p.dollar

ReMatch(p, s) ==
    /\ Len(s) >= Len(p.atoms)
    /\ \A i \in 1..Len(p.atoms) : s[i] \in p.atoms[i]
    /\ p.dollar => Len(s) = Len(p.atoms)

(***************************************************************************)
(* A field schema entry: its key and its validation descriptor.  regex and *)
(* maxLen are Optional: <<>> is None, <<x>> is x.  id, type, pageIndex,    *)
(* rect and style are layout data no handler reads.                        *)
(***************************************************************************)
Field(key, required, regex, maxLen) ==
    [key |-> key, required |-> required, regex |-> regex, maxLen |-> maxLen]

ErrRequired(key) == [kind |-> "required", key |-> key, limit |-> 0]
ErrRegex(key) == [kind |-> "regex", key |-> key, limit |-> 0]
ErrMaxLen(key, limit) == [kind |-> "maxLen", key |-> key, limit |-> limit]

\* The body of the validation loop for one field.
ValidateField(field, payload) ==
    LET value == get_nested_value(payload, field.key)
        missing == value.t = "null" \/ (value.t = "str" /\ value.s = <<>>)
    IN (IF field.required /\ missing THEN <<ErrRequired(field.key)>> ELSE <<>>)
       \o (IF /\ Truthy(value)
              /\ field.regex # <<>>
              /\ PatternTruthy(field.regex[1])
              /\ ~ReMatch(field.regex[1], Str(value))
           THEN <<ErrRegex(field.key)>> ELSE <<>>)
       \o (IF /\ Truthy(value)
              /\ field.maxLen # <<>>
              /\ field.maxLen[1] # 0
              /\ Len(Str(value)) > field.maxLen[1]
           THEN <<ErrMaxLen(field.key, field.maxLen[1])>> ELSE <<>>)

\* Faulty variant: the loop stops at the first field that has an error.
RECURSIVE ValidateFromFirst(_, _, _)
ValidateFromFirst(schema, payload, i) ==
    IF i > Len(schema) THEN <<>>
    ELSE IF ValidateField(schema[i], payload) # <<>>
    THEN ValidateField(schema[i], payload)
    ELSE ValidateFromFirst(schema, payload, i + 1)

RECURSIVE ValidateFrom(_, _, _)
ValidateFrom(schema, payload, i) ==
    IF i > Len(schema) THEN <<>>
    ELSE ValidateField(schema[i], payload) \o ValidateFrom(schema, payload, i + 1)

\* errors, after `for field in version.field_schema`.
Validate(schema, payload) == ValidateFrom(schema, payload, 1)

(***************************************************************************)
(* Inputs of the requests.                                                 *)
(***************************************************************************)
Keys == {"k1", "k2"}
FileUrls == {"/api/files/f1.pdf"}
Statuses == {"DRAFT", "PUBLISHED", "ARCHIVED"}

\* VersionUpdate.status = None
NoStatus == "None"
\* active_version_id IS NULL
NoId == 0
\* GenerateRequest.version == "latest"; any other selector is a version id
Latest == 0

KeyClientName == <<"c", ".", "n">>
SchemaEmpty == <<>>
SchemaRequired == <<Field(KeyClientName, TRUE, <<>>, <<>>)>>
Schemas == {SchemaEmpty, SchemaRequired}

PayloadNamed == VDict(<< <<<<"c">>, VDict(<< <<<<"n">>, VStr(<<"J">>)>> >>)>> >>)
PayloadUnnamed == VDict(<< <<<<"c">>, VDict(<<>>)>> >>)
Payloads == {PayloadNamed, PayloadUnnamed}

RenderOutcomes == {"ok", "error", "timeout"}

\* Inputs of the validation: fields on the keys "c.n" and "a", required or
\* with a pattern and a maximum length, and payloads whose "c" and "a" are
\* absent, null, empty, falsy, matching or too long.
KeyA == <<"a">>
PatternJ == Pattern(<<{"J"}>>, FALSE)
ValidationFields ==
    {Field(KeyClientName, TRUE, <<>>, <<>>),
     Field(KeyA, TRUE, <<>>, <<>>),
     Field(KeyA, FALSE, <<PatternJ>>, <<1>>),
     Field(KeyA, TRUE, <<PatternJ>>, <<>>),
     Field(KeyA, FALSE, <<>>, <<3>>)}
ValidationSchemas ==
    {<<>>} \cup {<<f>> : f \in ValidationFields}
           \cup {<<f, g>> : f \in ValidationFields, g \in ValidationFields}
ValuesOfC ==
    {VDict(<<>>), VDict(<< <<<<"n">>, VStr(<<"J">>)>> >>),
     VDict(<< <<<<"n">>, VStr(<<>>)>> >>), VStr(<<"x">>)}
ValuesOfA ==
    {VNull, VStr(<<>>), VStr(<<"J">>), VStr(<<"J", "J">>), VStr(<<"K", "K">>),
     VInt(0), VInt(1234), VBool(FALSE), VBool(TRUE)}
ValidationPayloads ==
    {VDict(<<>>)}
    \cup {VDict(<< <<<<"c">>, c>> >>) : c \in ValuesOfC}
    \cup {VDict(<< <<<<"a">>, a>> >>) : a \in ValuesOfA}
    \cup {VDict(<< <<<<"c">>, c>>, <<<<"a">>, a>> >>) : c \in ValuesOfC, a \in ValuesOfA}

TemplateIds == 1..MaxTemplates
VersionIds == 1..MaxVersions
SubmissionIds == 1..MaxSubmissions

Ops == {"create_template", "get_template", "delete_template", "create_version",
        "get_version", "update_version", "generate", "download"}

(***************************************************************************)
(* State: the committed rows of the three tables, the uuids drawn so far   *)
(* for templates (a deleted template's id is never drawn again), the       *)
(* requests between their first read and their commit, and the response    *)
(* a handler has just returned or raised, until it is sent.                *)
(***************************************************************************)
VARIABLES templates, usedTemplateIds, versions, submissions, inflight, response

vars == <<templates, usedTemplateIds, versions, submissions, inflight, response>>
db == <<templates, usedTemplateIds, versions, submissions>>

TemplateRow(key) == [key |-> key, active_version_id |-> NoId]

VersionRow(tid, number, url, schema) ==
    [template_id |-> tid, version_number |-> number, file_url |-> url,
     field_schema |-> schema, status |-> "DRAFT"]

\* Faulty variant: status is left to the column default (database.py:50).
SubmissionRowPending(tid, vid, payload) ==
    [template_id |-> tid, version_id |-> vid, payload |-> payload,
     status |-> "pending"]

\* Submission(template_id=template.id, version_id=version.id,
\*            payload=request.payload, status="completed")
SubmissionRow(tid, vid, payload) ==
    [template_id |-> tid, version_id |-> vid, payload |-> payload,
     status |-> "completed"]

\* What a request ends with: the handler, "ok" or the error raised, the
\* validation errors carried, what the renderer returned for the request
\* ("none": it was not run), and the request (its inputs, or its record in
\* inflight when it ends after its first read).
Response(op, result, errors, render, req) ==
    [op |-> op, result |-> result, errors |-> errors, render |-> render,
     req |-> req]

Reply(op, result, req) == Response(op, result, <<>>, "none", req)

NoResponse == Reply("none", "none", <<>>)

Init ==
    /\ templates = <<>>
    /\ usedTemplateIds = 0
    /\ versions = <<>>
    /\ submissions = <<>>
    /\ inflight = <<>>
    /\ response = NoResponse

Remove(seq, i) == SubSeq(seq, 1, i - 1) \o SubSeq(seq, i + 1, Len(seq))

Pending(op) == Cardinality({i \in 1..Len(inflight) : inflight[i].op = op})

\* A request is accepted while fewer than MaxInflight are between read and
\* commit.  races says which requests may overlap: a request starts beside
\* others only if it and they are of the handlers in DOMAIN races, and at most
\* races[op] requests of handler op are in flight at once.
CanStart(races, op) ==
    /\ response = NoResponse
    /\ Len(inflight) < MaxInflight
    /\ inflight # <<>> =>
          /\ op \in DOMAIN races
          /\ Pending(op) < races[op]
          /\ \A i \in 1..Len(inflight) : inflight[i].op \in DOMAIN races

Overlapping(ops) == [o \in ops |-> MaxInflight]

\* The request inflight[i] of handler op takes its next step.
Resumes(i, op) ==
    /\ response = NoResponse
    /\ inflight[i].op = op

Begin(r) ==
    /\ inflight' = Append(inflight, r)
    /\ UNCHANGED response

Finish(i, sent) ==
    /\ inflight' = Remove(inflight, i)
    /\ response' = sent

\* The response goes out before any handler runs again.
SendResponse ==
    /\ response # NoResponse
    /\ response' = NoResponse
    /\ UNCHANGED <<db, inflight>>

\* select(Template).where(Template.key == key)
TemplateByKey(key) == {t \in DOMAIN templates : templates[t].key = key}

\* select(TemplateVersion.version_number).where(template_id == tid)
VersionNumbersOf(tid) ==
    {v \in 1..Len(versions) : versions[v].template_id = tid}

\* Faulty variant: the submissions hold no foreign key to the template.
ReferencedByVersions(tid) ==
    \E v \in 1..Len(versions) : versions[v].template_id = tid

\* Rows whose foreign key references the template (no ON DELETE clause).
Referenced(tid) ==
    \/ \E v \in 1..Len(versions) : versions[v].template_id = tid
    \/ \E s \in 1..Len(submissions) : submissions[s].template_id = tid

(***************************************************************************)
(* create_template                                                         *)
(***************************************************************************)
\* Faulty variant: the key is not looked up before the insert.
CreateTemplateUnchecked(races, key) ==
    /\ CanStart(races, "create_template")
    /\ usedTemplateIds + Pending("create_template") < MaxTemplates
    /\ Begin([op |-> "create_template", key |-> key])
    /\ UNCHANGED db

\* The key check, then db.add: the request holds the row until its commit.
CreateTemplateCheck(races, key) ==
    /\ CanStart(races, "create_template")
    /\ IF TemplateByKey(key) # {}
       THEN /\ response' = Reply("create_template", "DuplicateKey", [key |-> key])
            /\ UNCHANGED <<db, inflight>>
       ELSE /\ usedTemplateIds + Pending("create_template") < MaxTemplates
            /\ Begin([op |-> "create_template", key |-> key])
            /\ UNCHANGED db

\* db.commit(): the INSERT, refused by the unique index on key.
CreateTemplateCommit(i) ==
    /\ Resumes(i, "create_template")
    /\ IF TemplateByKey(inflight[i].key) # {}
       THEN /\ Finish(i, Reply("create_template", "IntegrityError", inflight[i]))
            /\ UNCHANGED db
       ELSE /\ templates' = (usedTemplateIds + 1 :> TemplateRow(inflight[i].key))
                              @@ templates
            /\ usedTemplateIds' = usedTemplateIds + 1
            /\ Finish(i, Reply("create_template", "ok", inflight[i]))
            /\ UNCHANGED <<versions, submissions>>

(***************************************************************************)
(* get_template, delete_template                                           *)
(***************************************************************************)
GetTemplate(races, tid) ==
    /\ CanStart(races, "get_template")
    /\ response' = Reply("get_template",
                         IF tid \in DOMAIN templates THEN "ok" ELSE "NotFound",
                         [tid |-> tid])
    /\ UNCHANGED <<db, inflight>>

DeleteTemplateRead(races, tid) ==
    /\ CanStart(races, "delete_template")
    /\ IF tid \notin DOMAIN templates
       THEN /\ response' = Reply("delete_template", "NotFound", [tid |-> tid])
            /\ UNCHANGED <<db, inflight>>
       ELSE /\ Begin([op |-> "delete_template", tid |-> tid])
            /\ UNCHANGED db

\* db.delete(template); db.commit(): DELETE FROM templates WHERE id = tid.  No
\* relationship() cascades to the versions; a row still referencing the template
\* makes the DELETE fail.  A row another request deleted meanwhile matches nothing.
DeleteTemplateCommit(i) ==
    LET tid == inflight[i].tid IN
    /\ Resumes(i, "delete_template")
    /\ IF tid \notin DOMAIN templates
       THEN /\ Finish(i, Reply("delete_template", "ok", inflight[i]))
            /\ UNCHANGED db
       ELSE IF Referenced(tid)
       THEN /\ Finish(i, Reply("delete_template", "IntegrityError", inflight[i]))
            /\ UNCHANGED db
       ELSE /\ templates' = [t \in DOMAIN templates \ {tid} |-> templates[t]]
            /\ Finish(i, Reply("delete_template", "ok", inflight[i]))
            /\ UNCHANGED <<usedTemplateIds, versions, submissions>>

(***************************************************************************)
(* create_version, get_version                                             *)
(***************************************************************************)
\* result.scalar_one_or_none() on the version numbers of the template: the query
\* has no LIMIT, so it yields every row; two or more raise MultipleResultsFound.
ScalarOneOrNone(rows) ==
    IF Cardinality(rows) > 1 THEN "MultipleResultsFound"
    ELSE IF rows = {} THEN "None"
    ELSE "one"

\* next_version = (last_version or 0) + 1
NextVersion(rows) ==
    IF rows = {} THEN 1
    ELSE versions[CHOOSE v \in rows : TRUE].version_number + 1

CreateVersionRead(races, tid, url, schema) ==
    /\ CanStart(races, "create_version")
    /\ IF tid \notin DOMAIN templates
       THEN /\ response' = Reply("create_version", "NotFound", [tid |-> tid])
            /\ UNCHANGED <<db, inflight>>
       ELSE IF ScalarOneOrNone(VersionNumbersOf(tid)) = "MultipleResultsFound"
       THEN /\ response' = Reply("create_version", "MultipleResultsFound",
                                   [tid |-> tid])
            /\ UNCHANGED <<db, inflight>>
       ELSE /\ Len(versions) + Pending("create_version") < MaxVersions
            /\ Begin([op |-> "create_version", tid |-> tid, file_url |-> url,
                      schema |-> schema,
                      next_version |-> NextVersion(VersionNumbersOf(tid))])
            /\ UNCHANGED db

\* db.commit(): the INSERT; template_id must still reference a template.  No
\* constraint covers (template_id, version_number).
CreateVersionCommit(i) ==
    LET r == inflight[i] IN
    /\ Resumes(i, "create_version")
    /\ IF r.tid \notin DOMAIN templates
       THEN /\ Finish(i, Reply("create_version", "IntegrityError", r))
            /\ UNCHANGED db
       ELSE /\ versions' = Append(versions,
                  VersionRow(r.tid, r.next_version, r.file_url, r.schema))
            /\ Finish(i, Reply("create_version", "ok", r))
            /\ UNCHANGED <<templates, usedTemplateIds, submissions>>

GetVersion(races, vid) ==
    /\ CanStart(races, "get_version")
    /\ response' = Reply("get_version",
                         IF vid \in 1..Len(versions) THEN "ok" ELSE "NotFound",
                         [vid |-> vid])
    /\ UNCHANGED <<db, inflight>>

(***************************************************************************)
(* update_version                                                          *)
(***************************************************************************)
\* Faulty variant: the supplied fields are added to the ones the version has.
AssignedAppended(row, schema, status) ==
    [field_schema |-> IF schema # <<>> THEN <<row.field_schema \o schema>> ELSE <<>>,
     status |-> IF status # NoStatus /\ status # row.status
                THEN <<status>> ELSE <<>>]

\* What the session holds after lines 128-130: the attributes whose assigned
\* value differs from the value the row was loaded with are the ones the unit
\* of work will write (<<>>: not written, <<x>>: SET to x).
Assigned(row, schema, status) ==
    [field_schema |-> IF schema # row.field_schema THEN <<schema>> ELSE <<>>,
     status |-> IF status # NoStatus /\ status # row.status
                THEN <<status>> ELSE <<>>]

\* Faulty variant: the pointer follows every status that is supplied.
PublishingAnyStatus(status) == status # NoStatus

\* `if update_data.status:` and `update_data.status == VersionStatus.PUBLISHED`
Publishing(status) == status # NoStatus /\ status = "PUBLISHED"

UpdateVersionRead(races, vid, schema, status) ==
    /\ CanStart(races, "update_version")
    /\ IF vid \notin 1..Len(versions)
       THEN /\ response' = Reply("update_version", "NotFound",
                                   [vid |-> vid, status |-> status])
            /\ UNCHANGED <<db, inflight>>
       ELSE /\ Begin([op |-> "update_version", vid |-> vid,
                      template_id |-> versions[vid].template_id,
                      field_schema |-> schema, status |-> status,
                      assigned |-> Assigned(versions[vid], schema, status)])
            /\ UNCHANGED db

\* Faulty variant: the status is left out of the transaction that moves the pointer.
FlushedVersionSchemaOnly(row, r) ==
    [row EXCEPT
       !.field_schema = IF r.assigned.field_schema # <<>>
                        THEN r.assigned.field_schema[1] ELSE @]

\* The UPDATE the unit of work flushes for the version: the assigned columns,
\* the others staying as they are in the table.
FlushedVersion(row, r) ==
    [row EXCEPT
       !.field_schema = IF r.assigned.field_schema # <<>>
                        THEN r.assigned.field_schema[1] ELSE @,
       !.status = IF r.assigned.status # <<>> THEN r.assigned.status[1] ELSE @]

\* Faulty variant: the WHERE clause compares the template's id with the version's.
PublishedTemplatesWrongRow(tmpls, r) ==
    IF Publishing(r.status)
    THEN [t \in DOMAIN tmpls |->
            IF t = r.vid
            THEN [tmpls[t] EXCEPT !.active_version_id = r.vid]
            ELSE tmpls[t]]
    ELSE tmpls

\* update(Template).where(Template.id == version.template_id)
\*                 .values(active_version_id=version_id), when publishing.
PublishedTemplates(tmpls, r) ==
    IF Publishing(r.status)
    THEN [t \in DOMAIN tmpls |->
            IF t = r.template_id
            THEN [tmpls[t] EXCEPT !.active_version_id = r.vid]
            ELSE tmpls[t]]
    ELSE tmpls

\* db.commit(): the version's UPDATE and the template's in one transaction.
UpdateVersionCommit(i) ==
    LET r == inflight[i] IN
    /\ Resumes(i, "update_version")
    /\ versions' = [versions EXCEPT ![r.vid] = FlushedVersion(@, r)]
    /\ templates' = PublishedTemplates(templates, r)
    /\ Finish(i, Reply("update_version", "ok", r))
    /\ UNCHANGED <<usedTemplateIds, submissions>>

(***************************************************************************)
(* generate_pdf                                                            *)
(***************************************************************************)
\* Faulty variant: the unset pointer is not looked at.
NoActiveVersionIgnored(template, selector) == FALSE

\* request.version == "latest" and not template.active_version_id
NoActiveVersion(template, selector) ==
    selector = Latest /\ template.active_version_id = NoId

\* Faulty variant: the errors are collected and dropped.
RejectedNever(errors) == FALSE

\* `if errors:`
Rejected(errors) == errors # <<>>

\* version_id, from request.version and the template row.
ResolveVersionId(template, selector) ==
    IF selector = Latest THEN template.active_version_id ELSE selector

\* Lines 180-191: the template by key, then the version id.
GenerateResolve(races, key, selector, payload) ==
    /\ CanStart(races, "generate")
    /\ IF TemplateByKey(key) = {}
       THEN /\ response' = Reply("generate", "TemplateNotFound",
                                   [key |-> key, selector |-> selector])
            /\ UNCHANGED <<db, inflight>>
       ELSE LET tid == CHOOSE t \in TemplateByKey(key) : TRUE IN
            IF NoActiveVersion(templates[tid], selector)
            THEN /\ response' = Reply("generate", "NoPublishedVersion",
                                        [key |-> key, selector |-> selector])
                 /\ UNCHANGED <<db, inflight>>
            ELSE /\ Len(submissions) + Pending("generate") < MaxSubmissions
                 /\ Begin([op |-> "generate", pc |-> "version",
                           key |-> key, selector |-> selector,
                           tid |-> tid,
                           vid |-> ResolveVersionId(templates[tid], selector),
                           payload |-> payload])
                 /\ UNCHANGED db

\* Lines 193-217: the version row, then the validation of the payload.
GenerateValidate(i) ==
    LET r == inflight[i] IN
    /\ Resumes(i, "generate") /\ r.pc = "version"
    /\ IF r.vid \notin 1..Len(versions)
       THEN /\ Finish(i, Reply("generate", "VersionNotFound", r))
            /\ UNCHANGED db
       ELSE LET errors == Validate(versions[r.vid].field_schema, r.payload) IN
            IF Rejected(errors)
            THEN /\ Finish(i, Response("generate", "ValidationFailed", errors,
                                       "none", r))
                 /\ UNCHANGED db
            ELSE /\ inflight' = [inflight EXCEPT ![i].pc = "render"]
                 /\ UNCHANGED <<db, response>>

\* Lines 240-249: the Submission's INSERT; its template_id and version_id must
\* still reference rows.  A refused INSERT reaches `except Exception`.
InsertSubmission(i) ==
    LET r == inflight[i] IN
    IF r.tid \notin DOMAIN templates \/ r.vid \notin 1..Len(versions)
    THEN /\ Finish(i, Response("generate", "IntegrityError", <<>>, "ok", r))
         /\ UNCHANGED db
    ELSE /\ submissions' = Append(submissions,
                                   SubmissionRow(r.tid, r.vid, r.payload))
         /\ Finish(i, Response("generate", "ok", <<>>, "ok", r))
         /\ UNCHANGED <<templates, usedTemplateIds, versions>>

\* Faulty variant: the Submission is recorded before the renderer's outcome is looked at.
GenerateRenderRecordsFirst(i, outcome) ==
    LET r == inflight[i] IN
    /\ Resumes(i, "generate") /\ r.pc = "render"
    /\ submissions' = Append(submissions, SubmissionRow(r.tid, r.vid, r.payload))
    /\ Finish(i, Response("generate",
                          CASE outcome = "error" -> "RenderFailed"
                            [] outcome = "timeout" -> "RenderTimeout"
                            [] outcome = "ok" -> "ok",
                          <<>>, outcome, r))
    /\ UNCHANGED <<templates, usedTemplateIds, versions>>

\* Lines 219-260: subprocess.run of the renderer (30 s timeout), which touches no
\* table, and on its success the Submission.
GenerateRender(i, outcome) ==
    LET r == inflight[i] IN
    /\ Resumes(i, "generate") /\ r.pc = "render"
    /\ CASE outcome = "error" ->
              /\ Finish(i, Response("generate", "RenderFailed", <<>>, outcome, r))
              /\ UNCHANGED db
         [] outcome = "timeout" ->
              /\ Finish(i, Response("generate", "RenderTimeout", <<>>, outcome, r))
              /\ UNCHANGED db
         [] outcome = "ok" -> InsertSubmission(i)

(***************************************************************************)
(* download_pdf                                                            *)
(***************************************************************************)
\* input_data: the JSON document the renderer is started with.
InputData(version, payload, options) ==
    [fileUrl |-> version.file_url, fieldSchema |-> version.field_schema,
     payload |-> payload, options |-> options]

\* "options": {"flatten": True, "output": "base64"}
DownloadOptions == [flatten |-> TRUE, output |-> "base64"]

\* Faulty variant: the version is the one the template points at now.
DownloadActiveVersionId(submission) ==
    IF submission.template_id \in DOMAIN templates
    THEN templates[submission.template_id].active_version_id
    ELSE NoId

\* TemplateVersion.id == submission.version_id
DownloadVersionId(submission) == submission.version_id

\* Faulty variant: a download is recorded on the Submission.
DownloadRecorded(races, sid, outcome) ==
    /\ CanStart(races, "download")
    /\ sid \in 1..Len(submissions)
    /\ response' = Response("download", "ok", <<>>, "ok", [sid |-> sid])
    /\ submissions' = [submissions EXCEPT ![sid].status = "downloaded"]
    /\ UNCHANGED <<templates, usedTemplateIds, versions, inflight>>

\* The submission, its version, the renderer; nothing is written and nothing is
\* validated.  A version that is gone makes `version.file_url` raise; a renderer
\* that times out raises TimeoutExpired, which no handler here catches.
Download(races, sid, outcome) ==
    /\ CanStart(races, "download")
    /\ response' =
         IF sid \notin 1..Len(submissions)
         THEN Reply("download", "NotFound", [sid |-> sid])
         ELSE LET submission == submissions[sid]
                  vid == DownloadVersionId(submission)
              IN IF vid \notin 1..Len(versions)
                 THEN Reply("download", "AttributeError", [sid |-> sid])
                 ELSE Response("download",
                               CASE outcome = "ok" -> "ok"
                                 [] outcome = "error" -> "RenderFailed"
                                 [] outcome = "timeout" -> "TimeoutExpired",
                               <<>>, outcome,
                               [sid |-> sid,
                                input_data |-> InputData(versions[vid],
                                                         submission.payload,
                                                         DownloadOptions)])
    /\ UNCHANGED <<db, inflight>>

(***************************************************************************)
(* The system.  Next(races, keys): the requests with template keys in keys,*)
(* those of the handlers in races overlapping each other.                  *)
(***************************************************************************)
Next(races, keys) ==
    \/ SendResponse
    \/ \E key \in keys : CreateTemplateCheck(races, key)
    \/ \E i \in 1..Len(inflight) : CreateTemplateCommit(i)
    \/ \E tid \in TemplateIds : GetTemplate(races, tid)
    \/ \E tid \in TemplateIds : DeleteTemplateRead(races, tid)
    \/ \E i \in 1..Len(inflight) : DeleteTemplateCommit(i)
    \/ \E tid \in TemplateIds, url \in FileUrls, schema \in Schemas :
          CreateVersionRead(races, tid, url, schema)
    \/ \E i \in 1..Len(inflight) : CreateVersionCommit(i)
    \/ \E vid \in VersionIds : GetVersion(races, vid)
    \/ \E vid \in VersionIds, schema \in Schemas, status \in Statuses \cup {NoStatus} :
          UpdateVersionRead(races, vid, schema, status)
    \/ \E i \in 1..Len(inflight) : UpdateVersionCommit(i)
    \/ \E key \in keys, selector \in {Latest} \cup VersionIds, payload \in Payloads :
          GenerateResolve(races, key, selector, payload)
    \/ \E i \in 1..Len(inflight) : GenerateValidate(i)
    \/ \E i \in 1..Len(inflight), outcome \in RenderOutcomes : GenerateRender(i, outcome)
    \/ \E sid \in SubmissionIds, outcome \in RenderOutcomes :
          Download(races, sid, outcome)

\* Any requests overlap.
Spec == Init /\ [][Next(Overlapping(Ops), Keys)]_vars

\* One request after another: none starts before the last has ended.
Sequential == Overlapping({})

SeqSpec == Init /\ [][Next(Sequential, Keys)]_vars

\* Sequential, but for create_template requests overlapping each other.
CreateTemplateRace == Init /\ [][Next(Overlapping({"create_template"}), Keys)]_vars

\* Sequential, but for create_version requests overlapping each other.
CreateVersionRace == Init /\ [][Next(Overlapping({"create_version"}), Keys)]_vars

\* One update_version at a time, overlapping the readers of templates and versions.
Readers == {"get_template", "get_version", "generate", "download"}
OneWriter ==
    [o \in Readers \cup {"update_version"} |->
        IF o = "update_version" THEN 1 ELSE MaxInflight]

PublishRace == Init /\ [][Next(OneWriter, {"k1"})]_vars

\* Sequential, but for delete_template and generate requests overlapping.
DeleteRace ==
    Init /\ [][Next(Overlapping({"delete_template", "generate"}), Keys)]_vars

\* The validation alone: one template whose only version, published, has any
\* of the schemas, and generate requests for it with any of the payloads.
InitValidation ==
    /\ templates = (1 :> [TemplateRow("k1") EXCEPT !.active_version_id = 1])
    /\ usedTemplateIds = 1
    /\ \E url \in FileUrls, schema \in ValidationSchemas :
          versions = <<[VersionRow(1, 1, url, schema) EXCEPT !.status = "PUBLISHED"]>>
    /\ submissions = <<>>
    /\ inflight = <<>>
    /\ response = NoResponse

NextValidation ==
    \/ SendResponse
    \/ \E payload \in ValidationPayloads :
          GenerateResolve(Sequential, "k1", Latest, payload)
    \/ \E i \in 1..Len(inflight) : GenerateValidate(i)
    \/ \E i \in 1..Len(inflight), outcome \in RenderOutcomes : GenerateRender(i, outcome)

ValidationSpec == InitValidation /\ [][NextValidation]_vars

(***************************************************************************)
(* Properties                                                              *)
(***************************************************************************)
\* The version numbers a template's versions carry.
NumbersOf(t) == {versions[v].version_number : v \in VersionNumbersOf(t)}

\* This step ends request inflight[i] of handler op with a response.
Ends(i, op) ==
    /\ inflight[i].op = op
    /\ response = NoResponse
    /\ inflight' = Remove(inflight, i)
    /\ response'.op = op

\* This step is a step of request inflight[i]: it ends it or moves it on.
Steps(i) ==
    /\ response = NoResponse
    /\ \/ inflight' = Remove(inflight, i)
       \/ Len(inflight') = Len(inflight) /\ inflight'[i] # inflight[i]

\* This step ends a request of handler op at its first read.
EndsAtOnce(op) ==
    /\ response = NoResponse
    /\ inflight' = inflight
    /\ response'.op = op

\* C1: create_version requests issued one after another for an existing
\* template all succeed, and the template's version numbers are exactly 1..N.
C1_SequentialNumbering ==
    /\ response.op = "create_version" => response.result \in {"ok", "NotFound"}
    /\ \A t \in DOMAIN templates :
          NumbersOf(t) = 1..Cardinality(VersionNumbersOf(t))

\* C2: no two versions of one template share a version_number, however the
\* create_version requests interleave.
C2_UniqueVersionNumbers ==
    \A v, w \in 1..Len(versions) :
        (v # w /\ versions[v].template_id = versions[w].template_id)
            => versions[v].version_number # versions[w].version_number

\* C3: of create_template requests with one key, overlapping or not, one
\* creates the template and every other fails with DuplicateKey; no two
\* templates ever have the same key.
C3_ConcurrentCreate ==
    /\ \A t, u \in DOMAIN templates :
          t # u => templates[t].key # templates[u].key
    /\ response.op = "create_template" => response.result \in {"ok", "DuplicateKey"}

\* C4: a template's active_version_id is unset or references an existing
\* version of that template whose status is PUBLISHED.
C4_ActivePublished ==
    \A t \in DOMAIN templates :
        LET a == templates[t].active_version_id IN
        \/ a = NoId
        \/ /\ a \in 1..Len(versions)
           /\ versions[a].template_id = t
           /\ versions[a].status = "PUBLISHED"

\* C5: when update_version(V, status=PUBLISHED) succeeds, V is PUBLISHED and
\* its template's active_version_id is V; every version that was PUBLISHED
\* before (one published earlier) still is.
C5_PublishSetsActive ==
    [][\A i \in 1..Len(inflight) :
          (Ends(i, "update_version") /\ inflight[i].status = "PUBLISHED"
             /\ response'.result = "ok")
          => /\ versions'[inflight[i].vid].status = "PUBLISHED"
             /\ templates'[versions[inflight[i].vid].template_id].active_version_id
                   = inflight[i].vid
             /\ \A w \in 1..Len(versions) :
                   versions[w].status = "PUBLISHED"
                       => versions'[w].status = "PUBLISHED"]_vars

\* Two versions of one template are PUBLISHED and the pointer is on the one an
\* update_version has just published.
C5_Witness ==
    /\ response.op = "update_version" /\ response.result = "ok"
    /\ response.req.status = "PUBLISHED"
    /\ \E v \in 1..Len(versions) :
          /\ v # response.req.vid
          /\ versions[v].template_id = versions[response.req.vid].template_id
          /\ versions[v].status = "PUBLISHED"
          /\ versions[response.req.vid].status = "PUBLISHED"
          /\ templates[versions[v].template_id].active_version_id = response.req.vid

\* C6: a template's active_version_id changes only in the step that ends an
\* update_version whose supplied status is PUBLISHED and whose version belongs
\* to that template, and it changes to that version.
C6_PointerFrame ==
    [][\A t \in DOMAIN templates \cap DOMAIN templates' :
          templates'[t].active_version_id # templates[t].active_version_id
          => \E i \in 1..Len(inflight) :
                /\ Ends(i, "update_version")
                /\ inflight[i].status = "PUBLISHED"
                /\ versions[inflight[i].vid].template_id = t
                /\ templates'[t].active_version_id = inflight[i].vid]_vars

\* An update_version with status ARCHIVED has ended on a version of a template
\* whose pointer is unset, while another template's pointer is set.
C6_Witness ==
    /\ response.op = "update_version" /\ response.result = "ok"
    /\ response.req.status = "ARCHIVED"
    /\ templates[response.req.template_id].active_version_id = NoId
    /\ \E u \in DOMAIN templates : templates[u].active_version_id # NoId

\* C7: in the committed state, a version turns PUBLISHED in the very step that
\* puts its template's pointer on it, and a pointer moves onto a version only
\* in a step after which that version is PUBLISHED, whatever the readers that
\* overlap the update.
C7_AtomicPublish ==
    [][\A v \in 1..Len(versions) :
          LET t == versions[v].template_id IN
          /\ (versions[v].status # "PUBLISHED" /\ versions'[v].status = "PUBLISHED")
                => templates'[t].active_version_id = v
          /\ (templates[t].active_version_id # v
                 /\ templates'[t].active_version_id = v)
                => versions'[v].status = "PUBLISHED"]_vars

\* A publishing update_version has ended while a generate that read the
\* template before it is still in flight.
C7_Witness ==
    /\ response.op = "update_version" /\ response.result = "ok"
    /\ response.req.status = "PUBLISHED"
    /\ \E i \in 1..Len(inflight) :
          /\ inflight[i].op = "generate"
          /\ inflight[i].vid # response.req.vid
          /\ templates[inflight[i].tid].active_version_id = response.req.vid

\* C8: a generate whose payload has validation errors against the schema of
\* its version fails with ValidationFailed carrying these errors, without the
\* renderer being run, and leaves the submissions as they are.
C8_ValidationFailed ==
    [][\A i \in 1..Len(inflight) :
          LET r == inflight[i] IN
          (/\ r.op = "generate" /\ r.pc = "version"
           /\ Steps(i)
           /\ r.vid \in 1..Len(versions)
           /\ Validate(versions[r.vid].field_schema, r.payload) # <<>>)
          => /\ inflight' = Remove(inflight, i)
             /\ response' = Response("generate", "ValidationFailed",
                                     Validate(versions[r.vid].field_schema, r.payload),
                                     "none", r)
             /\ submissions' = submissions]_vars

\* A generate has failed validation.
C8_Witness ==
    /\ response.op = "generate" /\ response.result = "ValidationFailed"
    /\ response.errors = <<ErrRequired(KeyClientName)>>
    /\ response.render = "none"

\* C9: a generate whose renderer fails or times out fails with RenderFailed or
\* RenderTimeout and writes no Submission; the submissions grow only by the one
\* row of a generate that succeeds, so a success after failed attempts leaves
\* exactly one.
C9_RenderFailure ==
    [][/\ \A i \in 1..Len(inflight) :
            (Ends(i, "generate") /\ response'.render \in {"error", "timeout"})
            => /\ response'.result = IF response'.render = "error"
                                     THEN "RenderFailed" ELSE "RenderTimeout"
               /\ submissions' = submissions
       /\ submissions' # submissions
            => /\ response'.op = "generate" /\ response'.result = "ok"
               /\ response'.render = "ok"
       /\ (response = NoResponse /\ response'.op = "generate"
             /\ response'.result = "ok")
            => /\ Len(submissions') = Len(submissions) + 1
               /\ SubSeq(submissions', 1, Len(submissions)) = submissions]_vars

\* The renderer has failed for a generate and there is no Submission.
C9_Witness ==
    /\ response.op = "generate" /\ response.result = "RenderFailed"
    /\ response.render = "error"
    /\ submissions = <<>>

\* C10: generate fails with TemplateNotFound when no template has the key, with
\* NoPublishedVersion when the selector is "latest" and the pointer is unset,
\* with VersionNotFound when the resolved version does not exist; a generate
\* gets past neither of these, and in each case the renderer is not run and no
\* table changes.
C10_LookupFailures ==
    [][/\ EndsAtOnce("generate")
            => LET key == response'.req.key
                   selector == response'.req.selector
               IN /\ response'.result =
                        IF TemplateByKey(key) = {} THEN "TemplateNotFound"
                        ELSE "NoPublishedVersion"
                  /\ TemplateByKey(key) # {}
                        => \A t \in TemplateByKey(key) :
                              /\ selector = Latest
                              /\ templates[t].active_version_id = NoId
                  /\ response'.render = "none"
                  /\ db' = db
       /\ (response = NoResponse /\ Len(inflight') = Len(inflight) + 1
             /\ inflight'[Len(inflight')].op = "generate")
            => /\ inflight'[Len(inflight')].tid \in DOMAIN templates
               /\ inflight'[Len(inflight')].vid # NoId
       /\ \A i \in 1..Len(inflight) :
            (/\ inflight[i].op = "generate" /\ inflight[i].pc = "version"
             /\ Steps(i)
             /\ inflight[i].vid \notin 1..Len(versions))
            => /\ response' = Reply("generate", "VersionNotFound", inflight[i])
               /\ inflight' = Remove(inflight, i)
               /\ db' = db]_vars

\* A generate naming a version id that does not exist has failed, a template
\* with the key existing.
C10_Witness ==
    /\ response.op = "generate" /\ response.result = "VersionNotFound"
    /\ response.req.tid \in DOMAIN templates
    /\ response.req.vid \notin 1..Len(versions)
    /\ response.render = "none"

\* This step accepts a request of handler op: it is in flight afterwards.
Accepts(op) ==
    /\ response = NoResponse
    /\ Len(inflight') = Len(inflight) + 1
    /\ inflight'[Len(inflight')].op = op

\* C11: a generate that passes lookup, validation and render adds exactly one
\* Submission: template_id is the template with the request's key, version_id
\* the template's active_version_id for "latest" and the explicit id otherwise,
\* payload the request's, status completed; no other step adds a Submission.
C11_SubmissionCreated ==
    [][/\ Accepts("generate")
            => LET r == inflight'[Len(inflight')] IN
               /\ TemplateByKey(r.key) = {r.tid}
               /\ r.vid = IF r.selector = Latest
                          THEN templates[r.tid].active_version_id
                          ELSE r.selector
       /\ \A i \in 1..Len(inflight) :
            (Ends(i, "generate") /\ response'.result = "ok")
            => LET r == inflight[i] IN
               /\ r.pc = "render"
               /\ response'.render = "ok"
               /\ submissions' = Append(submissions,
                     [template_id |-> r.tid, version_id |-> r.vid,
                      payload |-> r.payload, status |-> "completed"])
       /\ Len(submissions') > Len(submissions)
            => \E i \in 1..Len(inflight) :
                  Ends(i, "generate") /\ response'.result = "ok"]_vars

\* A generate for "latest" has succeeded and its Submission names the template
\* of the key and the active version.
C11_Witness ==
    /\ response.op = "generate" /\ response.result = "ok"
    /\ response.req.selector = Latest
    /\ Len(submissions) = 1
    /\ submissions[1].template_id \in TemplateByKey(response.req.key)
    /\ submissions[1].version_id
          = templates[submissions[1].template_id].active_version_id
    /\ submissions[1].payload = response.req.payload
    /\ submissions[1].status = "completed"

\* C12: download of an existing Submission starts the renderer with the version
\* of the Submission's version_id and the Submission's payload, options
\* flatten=true and output=base64, whichever version the template points at;
\* it validates nothing and writes nothing; for a submission id that does not
\* exist it fails with NotFound and the renderer is not run.
C12_DownloadFrozen ==
    [][EndsAtOnce("download")
          => LET sid == response'.req.sid IN
             /\ db' = db
             /\ response'.errors = <<>>
             /\ IF sid \notin 1..Len(submissions)
                THEN response'.result = "NotFound" /\ response'.render = "none"
                ELSE /\ response'.render \in RenderOutcomes
                     /\ response'.result = "ok" <=> response'.render = "ok"
                     /\ response'.req.input_data =
                          [fileUrl |-> versions[submissions[sid].version_id].file_url,
                           fieldSchema |->
                              versions[submissions[sid].version_id].field_schema,
                           payload |-> submissions[sid].payload,
                           options |-> [flatten |-> TRUE, output |-> "base64"]]]_vars

\* A download has succeeded for a Submission whose version is no longer the
\* one its template points at and whose payload the version's schema would
\* now reject.
C12_Witness ==
    /\ response.op = "download" /\ response.result = "ok"
    /\ LET submission == submissions[response.req.sid] IN
       /\ templates[submission.template_id].active_version_id
             \notin {NoId, submission.version_id}
       /\ Validate(versions[submission.version_id].field_schema,
                   submission.payload) # <<>>
       /\ response.req.input_data.payload = submission.payload

\* C13: a version that is PUBLISHED keeps its file_url and its field schema in
\* every later step.
C13_PublishedImmutable ==
    [][\A v \in 1..Len(versions) :
          versions[v].status = "PUBLISHED"
          => /\ versions'[v].file_url = versions[v].file_url
             /\ versions'[v].field_schema = versions[v].field_schema]_vars

\* C14: the Submissions are append-only: every step keeps each existing
\* Submission as it is, at its place, and the only step that adds one is the
\* end of a generate that succeeds, which adds one.
C14_AppendOnly ==
    [][/\ Len(submissions') >= Len(submissions)
       /\ \A s \in 1..Len(submissions) : submissions'[s] = submissions[s]
       /\ submissions' # submissions
            => /\ Len(submissions') = Len(submissions) + 1
               /\ response = NoResponse
               /\ response'.op = "generate" /\ response'.result = "ok"]_vars

\* The version of a Submission has just been archived and the Submission is as
\* generate wrote it.
C14_Witness ==
    /\ response.op = "update_version" /\ response.result = "ok"
    /\ response.req.status = "ARCHIVED"
    /\ Len(submissions) = 1
    /\ submissions[1].version_id = response.req.vid
    /\ submissions[1].status = "completed"

\* The errors of one field, as the validation of that field alone gives them,
\* listed in the order required, pattern, max-length.
ErrorsOfField(field, payload) ==
    LET alone == Validate(<<field>>, payload)
        limit == IF field.maxLen = <<>> THEN 0 ELSE field.maxLen[1]
        Among(e) == \E j \in 1..Len(alone) : alone[j] = e
    IN SelectSeq(<<ErrRequired(field.key), ErrRegex(field.key),
                   ErrMaxLen(field.key, limit)>>, Among)

RECURSIVE ErrorsInSchemaOrder(_, _, _)
ErrorsInSchemaOrder(schema, payload, i) ==
    IF i > Len(schema) THEN <<>>
    ELSE ErrorsOfField(schema[i], payload)
         \o ErrorsInSchemaOrder(schema, payload, i + 1)

\* A generate has gone through the validation: the request it ended.
Validated ==
    /\ response.op = "generate"
    /\ response.result \in {"ValidationFailed", "ok", "RenderFailed", "RenderTimeout"}

\* C15: the errors a generate fails with are the errors of every field of the
\* schema, field after field in schema order and, within a field, in the order
\* required, pattern, max-length; a generate passes only if no field has one.
C15_AllErrors ==
    Validated
    => LET expected == ErrorsInSchemaOrder(versions[response.req.vid].field_schema,
                                           response.req.payload, 1)
       IN /\ response.errors = expected
          /\ response.result = "ValidationFailed" <=> expected # <<>>

\* Two required fields, both missing from the payload: two errors, one per
\* field, in schema order.
C15_Witness ==
    /\ Validated
    /\ versions[response.req.vid].field_schema
          = <<Field(KeyClientName, TRUE, <<>>, <<>>), Field(KeyA, TRUE, <<>>, <<>>)>>
    /\ response.req.payload = VDict(<<>>)
    /\ response.errors = <<ErrRequired(KeyClientName), ErrRequired(KeyA)>>

\* The segments of the keys of the fields, written out.
Segments(key) ==
    CASE key = KeyClientName -> << <<"c">>, <<"n">> >>
      [] key = KeyA -> << <<"a">> >>

\* The value a payload holds under a list of segments: the node reached by
\* descending through keyed structures, VNull (absent) when a segment is not
\* there or the node to descend into is not a keyed structure.
RECURSIVE Lookup(_, _)
Lookup(node, segments) ==
    IF segments = <<>> THEN node
    ELSE IF node.t # "dict" THEN VNull
    ELSE LET here == {j \in 1..Len(node.d) : node.d[j][1] = Head(segments)} IN
         IF here = {} THEN VNull
         ELSE Lookup(node.d[CHOOSE j \in here : TRUE][2], Tail(segments))

\* How many times an error is in a list of errors.
Count(errors, e) == Cardinality({j \in 1..Len(errors) : errors[j] = e})

\* C16: the value of a field is the one reached through the dot-separated
\* segments of its key, absent when a segment is missing or an intermediate
\* node is not a keyed structure; each required field gives exactly one
\* required error if that value is absent or the empty string and none
\* otherwise, and a field that is not required gives none.
C16_RequiredMissing ==
    Validated
    => LET schema == versions[response.req.vid].field_schema
           payload == response.req.payload
       IN \A key \in {KeyClientName, KeyA} :
             LET value == Lookup(payload, Segments(key))
                 missing == value = VNull \/ value = VStr(<<>>)
             IN Count(response.errors, ErrRequired(key))
                   = Cardinality({i \in 1..Len(schema) :
                                     /\ schema[i].key = key
                                     /\ schema[i].required
                                     /\ missing})

\* The schema [c.n required] against the payload {"c": {}}: exactly one error.
C16_Witness ==
    /\ Validated
    /\ versions[response.req.vid].field_schema
          = <<Field(KeyClientName, TRUE, <<>>, <<>>)>>
    /\ response.req.payload = VDict(<< <<<<"c">>, VDict(<<>>)>> >>)
    /\ response.errors = <<ErrRequired(KeyClientName)>>
    /\ response.result = "ValidationFailed"

\* C17: for a field with maxLen set, the max-length error is among the errors
\* exactly when the field's value is present and its string representation is
\* longer than maxLen; for a field with regex set, the pattern error exactly
\* when the value is present and its string representation does not match;
\* values such as 0 and false are present.  (The empty string, which the
\* required check counts as missing, is left aside.)
C17_PresentValuesChecked ==
    Validated
    => LET schema == versions[response.req.vid].field_schema
           payload == response.req.payload
       IN \A i \in 1..Len(schema) :
             LET field == schema[i]
                 value == Lookup(payload, Segments(field.key))
                 present == value # VNull
             IN value # VStr(<<>>)
                => /\ field.maxLen # <<>>
                      => (Count(response.errors,
                                ErrMaxLen(field.key, field.maxLen[1])) > 0
                          <=> present /\ Len(Str(value)) > field.maxLen[1])
                   /\ field.regex # <<>>
                      => (Count(response.errors, ErrRegex(field.key)) > 0
                          <=> present /\ ~ReMatch(field.regex[1], Str(value)))

\* C18: delete_template succeeds on a template that exists, the template and
\* its versions being gone afterwards, and fails with NotFound on one that does
\* not; no version ever references a template that does not exist.
C18_DeleteCascades ==
    /\ response.op = "delete_template"
          => /\ response.result \in {"ok", "NotFound"}
             /\ response.result = "ok"
                   => /\ response.req.tid \notin DOMAIN templates
                      /\ \A v \in 1..Len(versions) :
                            versions[v].template_id # response.req.tid
    /\ \A v \in 1..Len(versions) : versions[v].template_id \in DOMAIN templates

\* The templates that have the key.
WithKey(key) == {t \in DOMAIN templates : templates[t].key = key}

\* C19: with requests one after another, create_template with a key that a
\* template has fails with DuplicateKey and leaves the templates as they are;
\* with a key that none has it adds exactly one template, with that key and no
\* active version; the keys of the templates are pairwise distinct and no step
\* changes the key of a template.
C19_CreateTemplate ==
    [][/\ EndsAtOnce("create_template")
            => /\ response'.result = "DuplicateKey"
               /\ WithKey(response'.req.key) # {}
               /\ db' = db
       /\ Accepts("create_template")
            => /\ WithKey(inflight'[Len(inflight')].key) = {}
               /\ db' = db
       /\ \A i \in 1..Len(inflight) :
            Ends(i, "create_template")
            => /\ response'.result = "ok"
               /\ \E t \in DOMAIN templates' \ DOMAIN templates :
                     /\ DOMAIN templates' = DOMAIN templates \cup {t}
                     /\ templates'[t] = [key |-> inflight[i].key,
                                         active_version_id |-> NoId]
               /\ \A u \in DOMAIN templates : templates'[u] = templates[u]
       /\ \A t \in DOMAIN templates \cap DOMAIN templates' :
            templates'[t].key = templates[t].key
       /\ \A t, u \in DOMAIN templates :
            t # u => templates[t].key # templates[u].key]_vars

\* A create_template has failed with DuplicateKey beside two templates.
C19_Witness ==
    /\ response.op = "create_template" /\ response.result = "DuplicateKey"
    /\ WithKey(response.req.key) # {}
    /\ Cardinality(DOMAIN templates) = 2

\* C20: with requests one after another, update_version on a version that
\* exists makes its field schema the supplied list, makes its status the
\* supplied status if one is supplied and keeps it otherwise, and keeps its
\* version_number, template_id and file_url and every other version; on a
\* version id that does not exist it fails with NotFound and changes nothing.
C20_UpdateVersionFrame ==
    [][/\ EndsAtOnce("update_version")
            => /\ response'.result = "NotFound"
               /\ response'.req.vid \notin 1..Len(versions)
               /\ db' = db
       /\ Accepts("update_version")
            => /\ inflight'[Len(inflight')].vid \in 1..Len(versions)
               /\ db' = db
       /\ \A i \in 1..Len(inflight) :
            Ends(i, "update_version")
            => LET r == inflight[i] IN
               /\ response'.result = "ok"
               /\ Len(versions') = Len(versions)
               /\ versions'[r.vid] =
                     [template_id |-> versions[r.vid].template_id,
                      version_number |-> versions[r.vid].version_number,
                      file_url |-> versions[r.vid].file_url,
                      field_schema |-> r.field_schema,
                      status |-> IF r.status = NoStatus
                                 THEN versions[r.vid].status ELSE r.status]
               /\ \A w \in 1..Len(versions) :
                     w # r.vid => versions'[w] = versions[w]
               /\ submissions' = submissions]_vars

\* An update_version without status has put the one-field schema on a
\* PUBLISHED version beside another version that has the empty schema.
C20_Witness ==
    /\ response.op = "update_version" /\ response.result = "ok"
    /\ response.req.status = NoStatus
    /\ response.req.field_schema = SchemaRequired
    /\ versions[response.req.vid].field_schema = SchemaRequired
    /\ versions[response.req.vid].status = "PUBLISHED"
    /\ \E w \in 1..Len(versions) :
          w # response.req.vid /\ versions[w].field_schema = SchemaEmpty

\* C21: the version a Submission references is a version of the template the
\* Submission references.
C21_SubmissionConsistent ==
    \A s \in 1..Len(submissions) :
        /\ submissions[s].version_id \in 1..Len(versions)
        /\ versions[submissions[s].version_id].template_id
              = submissions[s].template_id

\* C22: when a generate writes its Submission, the payload passes the
\* validation against the field schema the Submission's version has at that
\* moment, whatever update_version requests overlap the generate.
C22_ValidAtWrite ==
    [][\A i \in 1..Len(inflight) :
          (Ends(i, "generate") /\ response'.result = "ok"
             /\ Len(submissions') = Len(submissions) + 1)
          => Validate(versions[inflight[i].vid].field_schema,
                      inflight[i].payload) = <<>>]_vars

\* C23: every Submission references a version and a template that exist,
\* delete_template requests on templates with Submissions included, so a
\* download of a Submission finds the version it renders.
C23_SubmissionsSurvive ==
    /\ \A s \in 1..Len(submissions) :
          /\ submissions[s].template_id \in DOMAIN templates
          /\ submissions[s].version_id \in 1..Len(versions)
    /\ response.op = "download" => response.result # "AttributeError"

\* A delete_template on a template that a Submission references has just
\* ended, and the Submission and its template are there.
C23_Witness ==
    /\ response.op = "delete_template"
    /\ \E s \in 1..Len(submissions) :
          /\ submissions[s].template_id = response.req.tid
          /\ submissions[s].template_id \in DOMAIN templates

====
